---- MODULE Spec2Model ----
(***************************************************************************)
(* A model of laser_slam's IncrementalEstimator                            *)
(* (src/laser_slam/src/incremental_estimator.cpp): worker threads call the *)
(* public operations of one estimator that owns an iSAM2 backend, the      *)
(* laser tracks and the index of the prior factor to remove.  Every        *)
(* statement of an operation that touches shared state is one step of the  *)
(* calling thread, so that the interleavings the recursive mutex allows    *)
(* (and those it does not prevent) are all explored.                       *)
(***************************************************************************)
EXTENDS Integers, Sequences, FiniteSets, TLC

(***************************************************************************)
(* Bounds of the model and constants of the program.                       *)
(***************************************************************************)
\* Public calls started over a run.
MaxCalls == 2
\* Longest factor graph a caller hands to estimate / estimateAndRemove;
\* registerPrior, which wants exactly one factor, is handed up to one more.
MaxNewFactors == 1
\* n_laser_slam_workers_: the number of laser tracks.
n_laser_slam_workers_ == 2
\* The worker whose prior is recorded for removal (worker_id == 1).
AnchorWorker == 1

\* Two worker threads call into the estimator.
Threads == {1, 2}
TrackIds == 0..(n_laser_slam_workers_ - 1)
\* Track i holds the poses of the times i and i + 1; a caller may name any
\* time from 0 to the latest pose of the last track.
Times == 0..n_laser_slam_workers_
Transforms == {0}

VARIABLES
  pc,                        \* position of each thread
  frame,                     \* arguments and locals of each thread's call
  full_class_mutex_,         \* the recursive mutex: [owner, count]
  isam2_,                    \* the backend: [factors, n_updates]
  factor_indice_to_remove_,  \* the replaceable-prior slot: [set, index]
  laser_tracks_,             \* per track: [min_time, max_time, values]
  params_,                   \* estimator parameters
  aborted,                   \* a CHECK failed: the process is gone
  n_calls,                   \* public calls started so far
  start,                     \* the shared state the threads started from
  loop_closure_noise_model_, \* the noise model of the loop closure factors
  icp_,                      \* the configuration of the scan matcher
  glog                       \* messages logged at WARNING or above

\* The members only the constructor writes, and the log.
set_at_construction == <<loop_closure_noise_model_, icp_, glog>>

vars == <<pc, frame, full_class_mutex_, isam2_, factor_indice_to_remove_,
          laser_tracks_, params_, aborted, n_calls, start,
          set_at_construction>>

(***************************************************************************)
(* Values.                                                                 *)
(***************************************************************************)
\* RelativePose: a loop closure candidate.
RelativePose(a, ta, b, tb, T) ==
  [track_id_a |-> a, time_a_ns |-> ta, track_id_b |-> b, time_b_ns |-> tb,
   T_a_b |-> T]

NoLoopClosure == RelativePose(0, 0, 0, 0, 0)

LoopClosures ==
  { RelativePose(a, ta, b, tb, T) :
      a \in TrackIds, ta \in Times, b \in TrackIds, tb \in Times,
      T \in Transforms }

\* A factor of the graph.  A removed factor leaves a null entry behind, so
\* that the indices of the other factors do not move.
NullFactor ==
  [kind |-> "null", from_track |-> 0, from_time |-> 0, to_track |-> 0,
   to_time |-> 0, measured |-> 0, worker |-> 0]

\* ExpressionFactor<SE3>(noise, T_a_b, inverse(T_w_a) * T_w_b)
LoopClosureFactor(lc) ==
  [kind |-> "loop_closure", from_track |-> lc.track_id_a,
   from_time |-> lc.time_a_ns, to_track |-> lc.track_id_b,
   to_time |-> lc.time_b_ns, measured |-> lc.T_a_b, worker |-> 0]

\* The prior factor a worker hands to registerPrior.
PriorFactor(w) ==
  [kind |-> "prior", from_track |-> w, from_time |-> 0, to_track |-> w,
   to_time |-> 0, measured |-> 0, worker |-> w]

\* Any other factor a worker hands to estimate (odometry).
OdometryFactor(w) ==
  [kind |-> "odometry", from_track |-> w, from_time |-> 0, to_track |-> w,
   to_time |-> 1, measured |-> 0, worker |-> w]

IdleFrame ==
  [op |-> "none", loop_closure |-> NoLoopClosure,
   updated_loop_closure |-> NoLoopClosure, new_factors |-> <<>>,
   worker_id |-> 0, laser_track_id |-> 0, update_result |-> <<>>,
   result |-> {}, nested |-> FALSE, track_iter |-> 0, returned |-> -1,
   icp_calls |-> <<>>]

(***************************************************************************)
(* The backend (gtsam::ISAM2), as the estimator uses it.                   *)
(***************************************************************************)
LiveIndices(factors) ==
  { i \in 0..(Len(factors) - 1) : factors[i + 1].kind # "null" }

\* isam2_.update(new_factors, new_values, remove): the factors named by
\* remove are dropped (an index that names no live factor drops nothing),
\* the new factors are appended, and their indices are reported.
ISAM2Update(isam, new_factors, remove) ==
  LET kept == [i \in 1..Len(isam.factors) |->
                 IF (i - 1) \in remove THEN NullFactor ELSE isam.factors[i]]
  IN [isam EXCEPT !.factors = kept \o new_factors, !.n_updates = @ + 1]

ISAM2NewFactorsIndices(isam, new_factors) ==
  [k \in 1..Len(new_factors) |-> Len(isam.factors) + k - 1]

\* isam2_.calculateEstimate(): the estimate is determined by the live factors.
ISAM2CalculateEstimate(isam) == LiveIndices(isam.factors)

(***************************************************************************)
(* The recursive mutex and std::lock_guard.                                *)
(***************************************************************************)
MutexFree == [owner |-> 0, count |-> 0]

\* A lock that excludes nobody.
CanLock_NoExclusion(t) == TRUE

\* A mutex that is not recursive.
CanLock_NotReentrant(t) == full_class_mutex_.owner = 0

CanLock(t) == full_class_mutex_.owner \in {0, t}

Locked(t) == [owner |-> t, count |-> full_class_mutex_.count + 1]

Unlocked(t) ==
  IF full_class_mutex_.count = 1 THEN MutexFree
  ELSE [owner |-> t, count |-> full_class_mutex_.count - 1]

(***************************************************************************)
(* Construction.                                                           *)
(***************************************************************************)
\* new LaserTrack(parameters.laser_track_params, i): the track of worker i.
NewLaserTrack(i) ==
  [laser_track_id |-> i, min_time |-> i, max_time |-> i + 1, values |-> {}]

\* isam2_params.setRelinearizeSkip(1)
ISAM2RelinearizeSkip == 1
\* isam2_params.setRelinearizeThreshold(0.001), in thousandths
ISAM2RelinearizeThreshold == 1

\* The relinearization policy a caller can ask for: skip count, and
\* threshold in thousandths.
RelinearizationPolicies == [skip : {1, 10}, threshold : {1, 100}]

\* EstimatorParams, as the constructor and the operations read it; the path
\* of the ICP configuration stands for what opening it gives.
EstimatorParams ==
  [relinearization : RelinearizationPolicies,
   loop_closure_noise_model : {1, 2},
   add_m_estimator_on_loop_closures : BOOLEAN,
   do_icp_step_on_loop_closures : BOOLEAN,
   icp_configuration_file : {"readable", "missing"}]

\* Lines 27-35.
LoopClosureNoiseModel(p) ==
  IF p.add_m_estimator_on_loop_closures
  THEN [kind |-> "robust_cauchy", sigmas |-> p.loop_closure_noise_model]
  ELSE [kind |-> "diagonal", sigmas |-> p.loop_closure_noise_model]

\* A constructor that gives up on the scan matcher when the file is missing.
IcpConfigured_NoFallback(p) ==
  IF p.icp_configuration_file = "readable"
  THEN [icp_ |-> "yaml", glog |-> <<>>]
  ELSE [icp_ |-> "unconfigured", glog |-> <<>>]

\* Lines 39-47: icp_ and what is logged (the INFO line is not kept).
IcpConfigured(p) ==
  IF p.icp_configuration_file = "readable"
  THEN [icp_ |-> "yaml", glog |-> <<>>]
  ELSE [icp_ |-> "default",
        glog |-> <<"WARNING: Could not open ICP configuration file. Using default configuration.">>]

Constructed(p) ==
  [isam2_ |-> [factors |-> <<>>, n_updates |-> 0,
               relinearizeSkip |-> ISAM2RelinearizeSkip,
               relinearizeThreshold |-> ISAM2RelinearizeThreshold],
   factor_indice_to_remove_ |-> [set |-> FALSE, index |-> 0],
   laser_tracks_ |-> [i \in TrackIds |-> NewLaserTrack(i)],
   loop_closure_noise_model_ |-> LoopClosureNoiseModel(p),
   icp_ |-> IcpConfigured(p).icp_,
   glog |-> IcpConfigured(p).glog,
   calls |-> <<>>]

\* The threads start on the estimator the constructor leaves.
Started(p) ==
  /\ params_ = p
  /\ pc = [t \in Threads |-> "idle"]
  /\ frame = [t \in Threads |-> IdleFrame]
  /\ full_class_mutex_ = MutexFree
  /\ isam2_ = Constructed(p).isam2_
  /\ factor_indice_to_remove_ = Constructed(p).factor_indice_to_remove_
  /\ laser_tracks_ = Constructed(p).laser_tracks_
  /\ loop_closure_noise_model_ = Constructed(p).loop_closure_noise_model_
  /\ icp_ = Constructed(p).icp_
  /\ glog = Constructed(p).glog
  /\ aborted = FALSE
  /\ n_calls = 0
  /\ start = Constructed(p)

\* The operations read one parameter, do_icp_step_on_loop_closures: the
\* threads of Spec run on an estimator built from parameters that differ in
\* it alone.
OperatingParams ==
  { p \in EstimatorParams :
      /\ p.relinearization = [skip |-> ISAM2RelinearizeSkip,
                              threshold |-> ISAM2RelinearizeThreshold]
      /\ p.loop_closure_noise_model = 1
      /\ ~p.add_m_estimator_on_loop_closures
      /\ p.icp_configuration_file = "readable" }

Init == \E p \in OperatingParams : Started(p)

(***************************************************************************)
(* Helpers of the steps.                                                   *)
(***************************************************************************)
Goto(t, where) == pc' = [pc EXCEPT ![t] = where]

At(t, where) == ~aborted /\ pc[t] = where

\* A failed CHECK_* logs FATAL and aborts the process: every thread is gone.
Abort(t) ==
  /\ aborted' = TRUE
  /\ pc' = [u \in Threads |-> "aborted"]
  /\ frame' = [u \in Threads |-> IF u = t THEN frame[t] ELSE IdleFrame]

\* Entering a public operation from outside.
Enter(t, where, f) ==
  /\ At(t, "idle")
  /\ n_calls < MaxCalls
  /\ n_calls' = n_calls + 1
  /\ Goto(t, where)
  /\ frame' = [frame EXCEPT ![t] = f]
  /\ UNCHANGED <<full_class_mutex_, isam2_, factor_indice_to_remove_,
                 laser_tracks_, params_, aborted, start, set_at_construction>>

\* std::lock_guard<std::recursive_mutex> lock(full_class_mutex_);
LockGuard(t, here, next) ==
  /\ At(t, here)
  /\ CanLock(t)
  /\ full_class_mutex_' = Locked(t)
  /\ Goto(t, next)
  /\ UNCHANGED <<frame, isam2_, factor_indice_to_remove_, laser_tracks_,
                 params_, aborted, n_calls, start, set_at_construction>>

\* The update of the line before, called again with its arguments.
EmptyUpdate_Resubmits(t, here, next) ==
  /\ At(t, here)
  /\ isam2_' = ISAM2Update(isam2_, frame[t].new_factors, {})
  /\ Goto(t, next)
  /\ UNCHANGED <<frame, full_class_mutex_, factor_indice_to_remove_,
                 laser_tracks_, params_, aborted, n_calls, start, set_at_construction>>

\* isam2_.update(): no new factors, no new values, nothing removed.
EmptyUpdate(t, here, next) ==
  /\ At(t, here)
  /\ isam2_' = ISAM2Update(isam2_, <<>>, {})
  /\ Goto(t, next)
  /\ UNCHANGED <<frame, full_class_mutex_, factor_indice_to_remove_,
                 laser_tracks_, params_, aborted, n_calls, start, set_at_construction>>

\* Values result(isam2_.calculateEstimate());
CalculateEstimate(t, here, next) ==
  /\ At(t, here)
  /\ frame' = [frame EXCEPT ![t].result = ISAM2CalculateEstimate(isam2_)]
  /\ Goto(t, next)
  /\ UNCHANGED <<full_class_mutex_, isam2_, factor_indice_to_remove_,
                 laser_tracks_, params_, aborted, n_calls, start, set_at_construction>>

\* return from a public operation called from outside; with_lock says
\* whether a lock_guard goes out of scope.
Return(t, here, with_lock) ==
  /\ At(t, here)
  /\ full_class_mutex_' = IF with_lock THEN Unlocked(t) ELSE full_class_mutex_
  /\ Goto(t, "idle")
  /\ frame' = [frame EXCEPT ![t] = IdleFrame]
  /\ UNCHANGED <<isam2_, factor_indice_to_remove_, laser_tracks_, params_,
                 aborted, n_calls, start, set_at_construction>>

(***************************************************************************)
(* processLoopClosure(loop_closure)                                        *)
(***************************************************************************)
\* The CHECKs without the last one.
ValidLoopClosure_NoUpperBoundB(lc, tracks) ==
  /\ lc.time_a_ns < lc.time_b_ns
  /\ lc.time_a_ns >= tracks[lc.track_id_a].min_time
  /\ lc.time_a_ns <= tracks[lc.track_id_a].max_time
  /\ lc.time_b_ns >= tracks[lc.track_id_b].min_time

\* The five CHECKs on the times of a loop closure.
ValidLoopClosure(lc, tracks) ==
  /\ lc.time_a_ns < lc.time_b_ns
  /\ lc.time_a_ns >= tracks[lc.track_id_a].min_time
  /\ lc.time_a_ns <= tracks[lc.track_id_a].max_time
  /\ lc.time_b_ns >= tracks[lc.track_id_b].min_time
  /\ lc.time_b_ns <= tracks[lc.track_id_b].max_time

\* icp_.compute(sub_map_b, sub_map_a, initial_guess): the refined transform
\* is another transform than the guess.
IcpCompute(initial_guess) == initial_guess + 1

\* An ICP step taken whatever the parameters say.
IcpComputeCalls_Always(lc, p) == <<lc.T_a_b>>

\* The calls of icp_.compute of lines 64-89, each with its initial guess.
IcpComputeCalls(lc, p) ==
  IF p.do_icp_step_on_loop_closures THEN <<lc.T_a_b>> ELSE <<>>

\* updated_loop_closure as it is after the optional ICP step.
UpdatedLoopClosure(lc, p) ==
  IF IcpComputeCalls(lc, p) # <<>>
  THEN [lc EXCEPT !.T_a_b = IcpCompute(IcpComputeCalls(lc, p)[1])]
  ELSE lc

processLoopClosure_call(t) ==
  \E lc \in LoopClosures :
    Enter(t, "plc_lock", [IdleFrame EXCEPT !.op = "processLoopClosure",
                                           !.loop_closure = lc])

\* track_id_a and track_id_b are unsigned: a caller can name a track the
\* estimator does not have.
OutOfRangeLoopClosures ==
  { RelativePose(a, ta, b, tb, T) :
      a \in 0..n_laser_slam_workers_, ta \in Times,
      b \in 0..n_laser_slam_workers_, tb \in Times, T \in Transforms }
    \ LoopClosures

processLoopClosure_callOutOfRange(t) ==
  \E lc \in OutOfRangeLoopClosures :
    Enter(t, "plc_lock", [IdleFrame EXCEPT !.op = "processLoopClosure",
                                           !.loop_closure = lc])

processLoopClosure_lock(t) == LockGuard(t, "plc_lock", "plc_check")

\* Both track ids name a track of laser_tracks_.
TrackIdsInRange(lc) ==
  lc.track_id_a \in TrackIds /\ lc.track_id_b \in TrackIds

\* How the CHECKs of lines 52-60 can end (TRUE: all pass).  Nothing checks the
\* track ids: laser_tracks_[id] with id out of range reads past the vector
\* and the CHECK compares the time with whatever is found there, or the
\* process crashes.  CHECKs that come before that read are decided.
CheckOutcomes(lc, tracks) ==
  IF TrackIdsInRange(lc) THEN {ValidLoopClosure(lc, tracks)}
  ELSE IF ~(lc.time_a_ns < lc.time_b_ns) THEN {FALSE}
  ELSE IF lc.track_id_a \in TrackIds
          /\ ~(/\ lc.time_a_ns >= tracks[lc.track_id_a].min_time
               /\ lc.time_a_ns <= tracks[lc.track_id_a].max_time)
       THEN {FALSE}
  ELSE BOOLEAN

\* How a later use of laser_tracks_[id]->... can end (TRUE: the call goes
\* on; FALSE: the process crashes).
TrackAccessOutcomes(lc) ==
  IF TrackIdsInRange(lc) THEN {TRUE} ELSE BOOLEAN

processLoopClosure_check(t) ==
  /\ At(t, "plc_check")
  /\ \E passes \in CheckOutcomes(frame[t].loop_closure, laser_tracks_) :
       IF passes
       THEN Goto(t, "plc_icp") /\ UNCHANGED <<aborted, frame>>
       ELSE Abort(t)
  /\ UNCHANGED <<full_class_mutex_, isam2_, factor_indice_to_remove_,
                 laser_tracks_, params_, n_calls, start, set_at_construction>>

\* Lines 64-89 touch the tracks (buildSubMapAroundTime) only when the ICP
\* step is wanted.
processLoopClosure_icp(t) ==
  /\ At(t, "plc_icp")
  /\ \E ok \in IF params_.do_icp_step_on_loop_closures
               THEN TrackAccessOutcomes(frame[t].loop_closure) ELSE {TRUE} :
       IF ok
       THEN /\ frame' = [frame EXCEPT
                           ![t].icp_calls =
                             IcpComputeCalls(frame[t].loop_closure, params_),
                           ![t].updated_loop_closure =
                             UpdatedLoopClosure(frame[t].loop_closure, params_)]
            /\ Goto(t, "plc_factor")
            /\ UNCHANGED aborted
       ELSE Abort(t)
  /\ UNCHANGED <<full_class_mutex_, isam2_, factor_indice_to_remove_,
                 laser_tracks_, params_, n_calls, start, set_at_construction>>

\* new_factors.push_back(new_factor), and the call of estimateAndRemove.
NewLoopClosureFactors(f) ==
  <<LoopClosureFactor(
      [f.updated_loop_closure EXCEPT
         !.track_id_a = f.loop_closure.track_id_a,
         !.track_id_b = f.loop_closure.track_id_b])>>

\* Lines 93-96 call getValueExpression on both tracks.
processLoopClosure_factor(t) ==
  /\ At(t, "plc_factor")
  /\ \E ok \in TrackAccessOutcomes(frame[t].loop_closure) :
       IF ok
       THEN /\ frame' = [frame EXCEPT
                           ![t].new_factors = NewLoopClosureFactors(frame[t]),
                           ![t].nested = TRUE]
            /\ Goto(t, "er_lock")
            /\ UNCHANGED aborted
       ELSE Abort(t)
  /\ UNCHANGED <<full_class_mutex_, isam2_, factor_indice_to_remove_,
                 laser_tracks_, params_, n_calls, start, set_at_construction>>

\* Only the two tracks the loop closure names.
TracksToUpdate_OnlyReferenced(f) ==
  {f.loop_closure.track_id_a, f.loop_closure.track_id_b}

\* One turn of the loop: track->updateFromGTSAMValues(result).
TracksToUpdate(f) == TrackIds

processLoopClosure_push(t) ==
  /\ At(t, "plc_push")
  /\ LET i == frame[t].track_iter IN
       /\ laser_tracks_' =
            IF i \in TracksToUpdate(frame[t])
            THEN [laser_tracks_ EXCEPT ![i].values = frame[t].result]
            ELSE laser_tracks_
       /\ frame' = [frame EXCEPT ![t].track_iter = i + 1]
       /\ Goto(t, IF i + 1 < n_laser_slam_workers_ THEN "plc_push"
                  ELSE "plc_return")
  /\ UNCHANGED <<full_class_mutex_, isam2_, factor_indice_to_remove_,
                 params_, aborted, n_calls, start, set_at_construction>>

processLoopClosure_return(t) == Return(t, "plc_return", TRUE)

(***************************************************************************)
(* estimate(new_factors, new_values)                                       *)
(***************************************************************************)
CallerFactors == { [k \in 1..n |-> OdometryFactor(0)] : n \in 0..MaxNewFactors }

estimate_call(t) ==
  \E nf \in CallerFactors :
    Enter(t, "e_lock", [IdleFrame EXCEPT !.op = "estimate",
                                         !.new_factors = nf])

estimate_lock(t) == LockGuard(t, "e_lock", "e_update")

estimate_update(t) ==
  /\ At(t, "e_update")
  /\ isam2_' = ISAM2Update(isam2_, frame[t].new_factors, {})
  /\ frame' = [frame EXCEPT ![t].update_result =
                 ISAM2NewFactorsIndices(isam2_, frame[t].new_factors)]
  /\ Goto(t, "e_update2")
  /\ UNCHANGED <<full_class_mutex_, factor_indice_to_remove_, laser_tracks_,
                 params_, aborted, n_calls, start, set_at_construction>>

estimate_update2(t) == EmptyUpdate(t, "e_update2", "e_update3")

estimate_update3(t) == EmptyUpdate(t, "e_update3", "e_calc")

estimate_calc(t) == CalculateEstimate(t, "e_calc", "e_return")

estimate_return(t) == Return(t, "e_return", TRUE)

(***************************************************************************)
(* estimateAndRemove(new_factors, new_values)                              *)
(***************************************************************************)
estimateAndRemove_call(t) ==
  \E nf \in CallerFactors :
    Enter(t, "er_lock", [IdleFrame EXCEPT !.op = "estimateAndRemove",
                                          !.new_factors = nf])

estimateAndRemove_lock(t) == LockGuard(t, "er_lock", "er_update")

\* The values factor_indices_to_remove.push_back(factor_indice_to_remove_)
\* can read: the recorded index, or anything when none was ever recorded.
SlotReads(slot, isam) ==
  IF slot.set THEN {slot.index} ELSE 0..Len(isam.factors)

\* The slot cleared once its factor is removed.
SlotAfterRemove_Cleared(slot) == [set |-> FALSE, index |-> 0]

\* What the step leaves in the slot.
SlotAfterRemove(slot) == slot

estimateAndRemove_update(t) ==
  /\ At(t, "er_update")
  /\ \E r \in SlotReads(factor_indice_to_remove_, isam2_) :
       isam2_' = ISAM2Update(isam2_, frame[t].new_factors, {r})
  /\ frame' = [frame EXCEPT ![t].update_result =
                 ISAM2NewFactorsIndices(isam2_, frame[t].new_factors)]
  /\ factor_indice_to_remove_' = SlotAfterRemove(factor_indice_to_remove_)
  /\ Goto(t, "er_update2")
  /\ UNCHANGED <<full_class_mutex_, laser_tracks_, params_, aborted, n_calls,
                 start, set_at_construction>>

estimateAndRemove_update2(t) == EmptyUpdate(t, "er_update2", "er_update3")

estimateAndRemove_update3(t) == EmptyUpdate(t, "er_update3", "er_calc")

estimateAndRemove_calc(t) == CalculateEstimate(t, "er_calc", "er_return")

\* Back to the caller: processLoopClosure, or outside.
estimateAndRemove_return(t) ==
  IF frame[t].nested
  THEN /\ At(t, "er_return")
       /\ full_class_mutex_' = Unlocked(t)
       /\ Goto(t, "plc_push")
       /\ frame' = [frame EXCEPT ![t].nested = FALSE]
       /\ UNCHANGED <<isam2_, factor_indice_to_remove_, laser_tracks_,
                      params_, aborted, n_calls, start, set_at_construction>>
  ELSE Return(t, "er_return", TRUE)

(***************************************************************************)
(* registerPrior(new_factors, new_values, worker_id)                       *)
(***************************************************************************)
registerPrior_call(t) ==
  \E w \in TrackIds, n \in 0..(MaxNewFactors + 1) :
    Enter(t, "rp_update", [IdleFrame EXCEPT !.op = "registerPrior",
                             !.worker_id = w,
                             !.new_factors = [k \in 1..n |-> PriorFactor(w)]])

registerPrior_update(t) ==
  /\ At(t, "rp_update")
  /\ isam2_' = ISAM2Update(isam2_, frame[t].new_factors, {})
  /\ frame' = [frame EXCEPT ![t].update_result =
                 ISAM2NewFactorsIndices(isam2_, frame[t].new_factors)]
  /\ Goto(t, "rp_check")
  /\ UNCHANGED <<full_class_mutex_, factor_indice_to_remove_, laser_tracks_,
                 params_, aborted, n_calls, start, set_at_construction>>

\* The slot written whoever the worker is.
SlotAfterRegister_AnyWorker(slot, worker_id, newFactorsIndices) ==
  [set |-> TRUE, index |-> newFactorsIndices[1]]

\* The slot after lines 158-160.
SlotAfterRegister(slot, worker_id, newFactorsIndices) ==
  IF worker_id = AnchorWorker
  THEN [set |-> TRUE, index |-> newFactorsIndices[1]]
  ELSE slot

\* A check that only refuses an empty report.
RegisterCheckPasses_AtLeastOne(newFactorsIndices) == Len(newFactorsIndices) >= 1

\* CHECK_EQ(update_result.newFactorsIndices.size(), 1u)
RegisterCheckPasses(newFactorsIndices) == Len(newFactorsIndices) = 1

registerPrior_check(t) ==
  /\ At(t, "rp_check")
  /\ IF RegisterCheckPasses(frame[t].update_result)
     THEN /\ factor_indice_to_remove_' =
               SlotAfterRegister(factor_indice_to_remove_, frame[t].worker_id,
                                 frame[t].update_result)
          /\ Goto(t, "rp_update2")
          /\ UNCHANGED <<aborted, frame>>
     ELSE /\ Abort(t)
          /\ UNCHANGED factor_indice_to_remove_
  /\ UNCHANGED <<full_class_mutex_, isam2_, laser_tracks_, params_,
                 n_calls, start, set_at_construction>>

registerPrior_update2(t) == EmptyUpdate(t, "rp_update2", "rp_update3")

registerPrior_update3(t) == EmptyUpdate(t, "rp_update3", "rp_calc")

registerPrior_calc(t) == CalculateEstimate(t, "rp_calc", "rp_return")

registerPrior_return(t) == Return(t, "rp_return", FALSE)

(***************************************************************************)
(* getLaserTrack(laser_track_id)                                           *)
(***************************************************************************)
getLaserTrack_call(t) ==
  \E id \in 0..n_laser_slam_workers_ :
    Enter(t, "gl_lock", [IdleFrame EXCEPT !.op = "getLaserTrack",
                                          !.laser_track_id = id])

getLaserTrack_lock(t) == LockGuard(t, "gl_lock", "gl_check")

\* Always the first track.
ReturnedLaserTrack_First(tracks, id) == tracks[0]

\* return laser_tracks_[laser_track_id];
ReturnedLaserTrack(tracks, id) == tracks[id]

\* The two CHECKs, and the handle the return statement copies: the track it
\* shares is known by the worker id it was created with.
getLaserTrack_check(t) ==
  /\ At(t, "gl_check")
  /\ IF frame[t].laser_track_id >= 0
        /\ frame[t].laser_track_id < n_laser_slam_workers_
     THEN /\ Goto(t, "gl_return")
          /\ frame' = [frame EXCEPT ![t].returned =
                         ReturnedLaserTrack(laser_tracks_,
                                            frame[t].laser_track_id).laser_track_id]
          /\ UNCHANGED aborted
     ELSE Abort(t)
  /\ UNCHANGED <<full_class_mutex_, isam2_, factor_indice_to_remove_,
                 laser_tracks_, params_, n_calls, start, set_at_construction>>

getLaserTrack_return(t) == Return(t, "gl_return", TRUE)

(***************************************************************************)
(* The specification: any thread takes the next step of its call.          *)
(***************************************************************************)
Next ==
  \E t \in Threads :
    \/ processLoopClosure_call(t)
    \/ processLoopClosure_lock(t)
    \/ processLoopClosure_check(t)
    \/ processLoopClosure_icp(t)
    \/ processLoopClosure_factor(t)
    \/ processLoopClosure_push(t)
    \/ processLoopClosure_return(t)
    \/ estimate_call(t)
    \/ estimate_lock(t)
    \/ estimate_update(t)
    \/ estimate_update2(t)
    \/ estimate_update3(t)
    \/ estimate_calc(t)
    \/ estimate_return(t)
    \/ estimateAndRemove_call(t)
    \/ estimateAndRemove_lock(t)
    \/ estimateAndRemove_update(t)
    \/ estimateAndRemove_update2(t)
    \/ estimateAndRemove_update3(t)
    \/ estimateAndRemove_calc(t)
    \/ estimateAndRemove_return(t)
    \/ registerPrior_call(t)
    \/ registerPrior_update(t)
    \/ registerPrior_check(t)
    \/ registerPrior_update2(t)
    \/ registerPrior_update3(t)
    \/ registerPrior_calc(t)
    \/ registerPrior_return(t)
    \/ getLaserTrack_call(t)
    \/ getLaserTrack_lock(t)
    \/ getLaserTrack_check(t)
    \/ getLaserTrack_return(t)

Spec == Init /\ [][Next]_vars

\* A thread takes the lock it waits for.
Acquire(t) ==
  \/ processLoopClosure_lock(t)
  \/ estimate_lock(t)
  \/ estimateAndRemove_lock(t)
  \/ getLaserTrack_lock(t)

\* A thread inside a call executes its next statement.
Proceed(t) ==
  \/ processLoopClosure_check(t)
  \/ processLoopClosure_icp(t)
  \/ processLoopClosure_factor(t)
  \/ processLoopClosure_push(t)
  \/ processLoopClosure_return(t)
  \/ estimate_update(t)
  \/ estimate_update2(t)
  \/ estimate_update3(t)
  \/ estimate_calc(t)
  \/ estimate_return(t)
  \/ estimateAndRemove_update(t)
  \/ estimateAndRemove_update2(t)
  \/ estimateAndRemove_update3(t)
  \/ estimateAndRemove_calc(t)
  \/ estimateAndRemove_return(t)
  \/ registerPrior_update(t)
  \/ registerPrior_check(t)
  \/ registerPrior_update2(t)
  \/ registerPrior_update3(t)
  \/ registerPrior_calc(t)
  \/ registerPrior_return(t)
  \/ getLaserTrack_check(t)
  \/ getLaserTrack_return(t)

\* Fair scheduling: a thread that can run does, and a thread for which the
\* lock is free again and again gets it.  Nothing makes a thread call.
FairScheduling ==
  \A t \in Threads : WF_vars(Proceed(t)) /\ SF_vars(Acquire(t))

\* The arguments of a call fail one of its CHECKs.
InvalidInput(f) ==
  \/ f.op = "processLoopClosure" /\ ~ValidLoopClosure(f.loop_closure, laser_tracks_)
  \/ f.op = "registerPrior" /\ Len(f.new_factors) # 1
  \/ f.op = "getLaserTrack" /\ f.laser_track_id \notin TrackIds

\* Calls on valid input only, as many as there are threads: every thread
\* can be inside a call while the others call.
ValidCall(t) ==
  /\ n_calls' <= Cardinality(Threads)
  /\ ~InvalidInput(frame[t])'

NextValidCalls ==
  \E t \in Threads :
    \/ processLoopClosure_call(t) /\ ValidCall(t)
    \/ estimate_call(t) /\ ValidCall(t)
    \/ estimateAndRemove_call(t) /\ ValidCall(t)
    \/ registerPrior_call(t) /\ ValidCall(t)
    \/ getLaserTrack_call(t) /\ ValidCall(t)
    \/ Acquire(t)
    \/ Proceed(t)

FairSpec == Init /\ [][NextValidCalls]_vars /\ FairScheduling

\* The same threads, which may also hand processLoopClosure a candidate
\* whose track ids are out of range.
NextOutOfRange ==
  \/ Next
  \/ \E t \in Threads : processLoopClosure_callOutOfRange(t)

SpecOutOfRange == Init /\ [][NextOutOfRange]_vars

\* The estimator constructed from any parameters, and threads that ask it
\* for its tracks.
InitAnyParams == \E p \in EstimatorParams : Started(p)

NextGetLaserTrack ==
  \E t \in Threads :
    \/ getLaserTrack_call(t)
    \/ getLaserTrack_lock(t)
    \/ getLaserTrack_check(t)
    \/ getLaserTrack_return(t)

SpecAnyParams == InitAnyParams /\ [][NextGetLaserTrack]_vars

(***************************************************************************)
(* The operations run to completion by one thread alone, as functions of   *)
(* the shared state [isam2_, factor_indice_to_remove_, laser_tracks_].     *)
(***************************************************************************)
\* registerPrior(<<prior of w>>, {}, w), lines 155-165.
RegisterPriorDone(s, w) ==
  LET nf == <<PriorFactor(w)>>
      updated == ISAM2Update(s.isam2_, nf, {})
      slot == SlotAfterRegister(s.factor_indice_to_remove_, w,
                                ISAM2NewFactorsIndices(s.isam2_, nf))
  IN [s EXCEPT !.isam2_ = ISAM2Update(ISAM2Update(updated, <<>>, {}), <<>>, {}),
               !.factor_indice_to_remove_ = slot]

\* processLoopClosure(lc) on a valid lc, lines 62-111, when line 138 reads r.
ProcessLoopClosureDone(s, lc, p, r) ==
  LET nf == NewLoopClosureFactors(
              [loop_closure |-> lc,
               updated_loop_closure |-> UpdatedLoopClosure(lc, p)])
      updated == ISAM2Update(s.isam2_, nf, {r})
      isam == ISAM2Update(ISAM2Update(updated, <<>>, {}), <<>>, {})
      result == ISAM2CalculateEstimate(isam)
  IN [s EXCEPT !.isam2_ = isam,
               !.laser_tracks_ =
                  [i \in TrackIds |-> [s.laser_tracks_[i] EXCEPT !.values = result]]]

ProcessLoopClosureOutcomes(s, lc, p) ==
  { ProcessLoopClosureDone(s, lc, p, r) :
      r \in SlotReads(s.factor_indice_to_remove_, s.isam2_) }

(***************************************************************************)
(* A second specification: two threads have each called processLoopClosure *)
(* on a valid candidate, the two candidates naming different poses, after  *)
(* the workers registered their priors (or did not).                       *)
(***************************************************************************)
PoseVariables(lc) ==
  {<<lc.track_id_a, lc.time_a_ns>>, <<lc.track_id_b, lc.time_b_ns>>}

Disjoint(lc1, lc2) == PoseVariables(lc1) \cap PoseVariables(lc2) = {}

\* The estimator after up to two registerPrior calls made one after the other.
RegisteredStates(p) ==
  LET s0 == Constructed(p)
      s1 == { RegisterPriorDone(s0, w) : w \in TrackIds }
      s2 == { RegisterPriorDone(s, w) : s \in s1, w \in TrackIds }
  IN {s0} \cup s1 \cup s2

InitLC ==
  /\ params_ \in OperatingParams
  /\ loop_closure_noise_model_ = Constructed(params_).loop_closure_noise_model_
  /\ icp_ = Constructed(params_).icp_
  /\ glog = Constructed(params_).glog
  /\ \E s \in RegisteredStates(params_), lc1 \in LoopClosures, lc2 \in LoopClosures :
       /\ ValidLoopClosure(lc1, s.laser_tracks_)
       /\ ValidLoopClosure(lc2, s.laser_tracks_)
       /\ Disjoint(lc1, lc2)
       /\ isam2_ = s.isam2_
       /\ factor_indice_to_remove_ = s.factor_indice_to_remove_
       /\ laser_tracks_ = s.laser_tracks_
       /\ start = [s EXCEPT !.calls = <<lc1, lc2>>]
       /\ frame = [t \in Threads |->
                     [IdleFrame EXCEPT !.op = "processLoopClosure",
                                       !.loop_closure = <<lc1, lc2>>[t]]]
  /\ pc = [t \in Threads |-> "plc_lock"]
  /\ full_class_mutex_ = MutexFree
  /\ aborted = FALSE
  /\ n_calls = Cardinality(Threads)

NextLC ==
  \E t \in Threads :
    \/ processLoopClosure_lock(t)
    \/ processLoopClosure_check(t)
    \/ processLoopClosure_icp(t)
    \/ processLoopClosure_factor(t)
    \/ estimateAndRemove_lock(t)
    \/ estimateAndRemove_update(t)
    \/ estimateAndRemove_update2(t)
    \/ estimateAndRemove_update3(t)
    \/ estimateAndRemove_calc(t)
    \/ estimateAndRemove_return(t)
    \/ processLoopClosure_push(t)
    \/ processLoopClosure_return(t)

SpecLC == InitLC /\ [][NextLC]_vars

(***************************************************************************)
(* Where a thread is, in the words of the properties below.                *)
(***************************************************************************)
\* Positions from which the next step calls the backend or writes a track.
AccessPositions ==
  {"e_update", "e_update2", "e_update3", "e_calc",
   "er_update", "er_update2", "er_update3", "er_calc",
   "rp_update", "rp_update2", "rp_update3", "rp_calc", "plc_push"}

\* Positions from which the next step hands new factors to the backend.
SubmissionPositions == {"e_update", "er_update", "rp_update"}

\* Positions inside the body of an operation that takes the lock.
LockedBodyPositions ==
  {"plc_check", "plc_icp", "plc_factor", "plc_push", "plc_return",
   "e_update", "e_update2", "e_update3", "e_calc", "e_return",
   "er_lock", "er_update", "er_update2", "er_update3", "er_calc", "er_return",
   "gl_check", "gl_return"}

\* registerPrior has updated the backend and has the slot write, the two
\* further updates or calculateEstimate still to do.
RegisterPriorBodyPositions == {"rp_check", "rp_update2", "rp_update3", "rp_calc"}

\* The thread's operation has made an access and has another one to make.
MidBlock(t) ==
  \/ pc[t] \in {"e_update2", "e_update3", "e_calc", "er_update2", "er_update3",
                "er_calc", "rp_check", "rp_update2", "rp_update3", "rp_calc"}
  \/ pc[t] = "er_return" /\ frame[t].nested
  \/ pc[t] = "plc_push" /\ frame[t].track_iter > 0

\* Thread t takes a step (when a CHECK of another thread ends the process,
\* t is stopped and takes none).
Steps(t) ==
  /\ pc'[t] # pc[t] \/ frame'[t] # frame[t]
  /\ aborted' => frame'[t].op # "none"

\* The thread is inside an operation, at a place where it reads or writes
\* the backend, the tracks or the slot.
InsideOperation(t) ==
  \/ pc[t] \in LockedBodyPositions /\ ~(pc[t] = "er_lock" /\ ~frame[t].nested)
  \/ pc[t] \in RegisterPriorBodyPositions

(***************************************************************************)
(* C1: mutual exclusion over all shared state: at most one thread is       *)
(* inside a public operation that reads or writes the backend, the tracks  *)
(* or the slot, registerPrior included.  (registerPrior takes no lock: it  *)
(* runs beside a thread that holds it.)                                    *)
(***************************************************************************)
C1_MutualExclusion ==
  Cardinality({ t \in Threads : InsideOperation(t) }) <= 1

(***************************************************************************)
(* C3: each public operation is one atomic unit for the backend: no thread *)
(* calls the backend or writes a track while another thread's operation is *)
(* between two of its own accesses, and whoever submits factors holds the  *)
(* lock against the others (none of them holds it), so that submissions    *)
(* arrive in the order of lock acquisition.                                *)
(* (registerPrior's four backend calls interleave with the others'.)       *)
(***************************************************************************)
C3_AtomicUnits ==
  [][\A t \in Threads :
       (pc[t] \in AccessPositions /\ Steps(t)) =>
         /\ \A u \in Threads \ {t} : ~MidBlock(u)
         /\ (pc[t] \in SubmissionPositions =>
               full_class_mutex_.owner \notin Threads \ {t})]_vars

(***************************************************************************)
(* C2: two concurrent processLoopClosure calls on disjoint valid           *)
(* candidates are serialized: the two threads are never both inside the    *)
(* body, and once both calls have returned the backend (and the tracks)    *)
(* are what running the two calls one after the other, in one of the two   *)
(* orders, leaves.                                                         *)
(***************************************************************************)
SharedState ==
  [isam2_ |-> isam2_, factor_indice_to_remove_ |-> factor_indice_to_remove_,
   laser_tracks_ |-> laser_tracks_,
   loop_closure_noise_model_ |-> loop_closure_noise_model_,
   icp_ |-> icp_, glog |-> glog, calls |-> start.calls]

SerialOutcomes(s, lc1, lc2, p) ==
  UNION { ProcessLoopClosureOutcomes(s1, lc2, p) :
            s1 \in ProcessLoopClosureOutcomes(s, lc1, p) }

InLoopClosureBody(t) ==
  frame[t].op = "processLoopClosure" /\ pc[t] \in LockedBodyPositions

BothLoopClosuresDone ==
  /\ Len(start.calls) = 2
  /\ \A t \in Threads : pc[t] = "idle"

C2_LoopClosuresSerialized ==
  /\ \A t \in Threads, u \in Threads :
       t # u => ~(InLoopClosureBody(t) /\ InLoopClosureBody(u))
  /\ BothLoopClosuresDone =>
       SharedState \in
         SerialOutcomes(start, start.calls[1], start.calls[2], params_)
           \cup SerialOutcomes(start, start.calls[2], start.calls[1], params_)

C2_Witness ==
  /\ BothLoopClosuresDone
  /\ Cardinality({ i \in LiveIndices(isam2_.factors) :
                     isam2_.factors[i + 1].kind = "loop_closure" }) = 2

(***************************************************************************)
(* C4: a loop closure that violates a time invariant makes                 *)
(* processLoopClosure abort before any backend update: the call never gets *)
(* past its CHECKs, and the aborting step leaves the backend's factors,    *)
(* the tracks and the slot as they were.                                   *)
(***************************************************************************)
TimeViolation(lc) ==
  \/ lc.time_a_ns >= lc.time_b_ns
  \/ lc.time_a_ns < laser_tracks_[lc.track_id_a].min_time
  \/ lc.time_a_ns > laser_tracks_[lc.track_id_a].max_time
  \/ lc.time_b_ns < laser_tracks_[lc.track_id_b].min_time
  \/ lc.time_b_ns > laser_tracks_[lc.track_id_b].max_time

InLoopClosure(t) == frame[t].op = "processLoopClosure"

C4_InvalidLoopClosureAborts ==
  /\ [](\A t \in Threads :
          (InLoopClosure(t) /\ TimeViolation(frame[t].loop_closure)) =>
            pc[t] \in {"plc_lock", "plc_check", "aborted"})
  /\ [][\A t \in Threads :
          (pc[t] = "plc_check" /\ Steps(t)
             /\ TimeViolation(frame[t].loop_closure)) =>
            /\ aborted'
            /\ UNCHANGED <<isam2_, laser_tracks_, factor_indice_to_remove_>>]_vars

\* An invalid loop closure aborted a process whose backend holds a prior.
C4_Witness ==
  /\ aborted
  /\ isam2_.factors # <<>>
  /\ \E t \in Threads :
       InLoopClosure(t) /\ TimeViolation(frame[t].loop_closure)

(***************************************************************************)
(* C5: a loop closure with time_a < time_b and both times within their     *)
(* tracks' bounds is never refused; its submission adds exactly one        *)
(* constraint, the loop closure (and drops at most the one constraint the  *)
(* slot names), and when the call is about to return every one of the N    *)
(* tracks holds the estimate the call computed, which contains the new     *)
(* constraint.                                                             *)
(***************************************************************************)
Live == LiveIndices(isam2_.factors)

C6_NetConstraintDeltas ==
  [][\A t \in Threads :
       /\ (pc[t] = "er_update" /\ Steps(t)) =>
            Cardinality(LiveIndices(isam2_'.factors))
              = Cardinality(Live) + Len(frame[t].new_factors) - 1
       /\ (pc[t] = "e_update" /\ Steps(t)) =>
            Cardinality(LiveIndices(isam2_'.factors))
              = Cardinality(Live) + Len(frame[t].new_factors)]_vars

(***************************************************************************)
(* C7: whenever estimateAndRemove submits, the slot has been set, it names *)
(* a live constraint that is a prior registered by the anchor worker, and  *)
(* exactly that constraint is removed.                                     *)
(***************************************************************************)
C7_RemovesTheRecordedPrior ==
  [][\A t \in Threads :
       (pc[t] = "er_update" /\ Steps(t)) =>
         /\ factor_indice_to_remove_.set
         /\ factor_indice_to_remove_.index \in Live
         /\ isam2_.factors[factor_indice_to_remove_.index + 1]
              = PriorFactor(AnchorWorker)
         /\ Live \ LiveIndices(isam2_'.factors)
              = {factor_indice_to_remove_.index}]_vars

(***************************************************************************)
(* C8: a registerPrior that passes its CHECK leaves the slot alone when    *)
(* worker_id is not 1, and when worker_id is 1 sets it to the index the    *)
(* backend assigned to the factor of this call.                            *)
(***************************************************************************)
C8_OnlyTheAnchorSetsTheSlot ==
  [][\A t \in Threads :
       (pc[t] = "rp_check" /\ Steps(t) /\ ~aborted') =>
         IF frame[t].worker_id = 1
         THEN /\ factor_indice_to_remove_'.set
              /\ factor_indice_to_remove_'.index = frame[t].update_result[1]
              /\ isam2_.factors[factor_indice_to_remove_'.index + 1]
                   \in {PriorFactor(1), NullFactor}
         ELSE factor_indice_to_remove_' = factor_indice_to_remove_]_vars

\* The anchor worker has just recorded its index, which is not the first
\* index of the backend.
C8_Witness ==
  \E t \in Threads :
    /\ pc[t] = "rp_update2"
    /\ frame[t].worker_id = 1
    /\ factor_indice_to_remove_ = [set |-> TRUE, index |-> 1]

(***************************************************************************)
(* C9: a registerPrior that gets past its CHECK has submitted exactly one  *)
(* constraint; when the backend reports no or several new indices the call *)
(* aborts and the slot is not written, whatever the worker.                *)
(***************************************************************************)
C9_RegisterPriorChecksOneIndex ==
  /\ [](\A t \in Threads :
          pc[t] \in {"rp_update2", "rp_update3", "rp_calc", "rp_return"} =>
            Len(frame[t].new_factors) = 1 /\ Len(frame[t].update_result) = 1)
  /\ [][\A t \in Threads :
          (pc[t] = "rp_check" /\ Steps(t) /\ Len(frame[t].update_result) # 1) =>
            /\ aborted'
            /\ factor_indice_to_remove_' = factor_indice_to_remove_]_vars

\* The anchor worker handed in two factors: the process is gone, the slot
\* was never written.
C9_Witness ==
  /\ aborted
  /\ ~factor_indice_to_remove_.set
  /\ \E t \in Threads :
       /\ frame[t].op = "registerPrior"
       /\ frame[t].worker_id = AnchorWorker
       /\ Len(frame[t].update_result) = 2

(***************************************************************************)
(* C10: only registerPrior's slot write changes the slot, and a slot that  *)
(* is set stays set; estimateAndRemove leaves it naming the removed factor.*)
(***************************************************************************)
C10_OnlyRegisterPriorMovesTheSlot ==
  [][/\ factor_indice_to_remove_' # factor_indice_to_remove_ =>
          \E t \in Threads :
            pc[t] = "rp_check" /\ pc'[t] = "rp_update2"
              /\ frame[t].worker_id = AnchorWorker
     /\ factor_indice_to_remove_.set => factor_indice_to_remove_'.set]_vars

\* estimateAndRemove has removed the recorded prior and the slot still
\* names it.
C10_Witness ==
  /\ factor_indice_to_remove_.set
  /\ factor_indice_to_remove_.index < Len(isam2_.factors)
  /\ isam2_.factors[factor_indice_to_remove_.index + 1] = NullFactor
  /\ \E t \in Threads : pc[t] = "er_return"

(***************************************************************************)
(* C11: global/local consistency: when an update operation (estimate,      *)
(* estimateAndRemove, registerPrior or processLoopClosure) has done its     *)
(* work and is about to return, every track stores what the backend's      *)
(* recomputed estimate holds.  (Only processLoopClosure writes the tracks: *)
(* the three others hand the estimate to their caller.)                    *)
(***************************************************************************)
UpdateDone(t) ==
  \/ pc[t] \in {"e_return", "rp_return", "plc_return"}
  \/ pc[t] = "er_return" /\ ~frame[t].nested

C11_GlobalLocalConsistency ==
  \A t \in Threads :
    UpdateDone(t) =>
      \A i \in TrackIds :
        laser_tracks_[i].values = ISAM2CalculateEstimate(isam2_)

(***************************************************************************)
(* C12: deduplication: once every call made so far has returned, the       *)
(* backend holds at most one live prior of the anchor worker.              *)
(* (Two registerPrior calls of the anchor worker with no removal between   *)
(* them leave two.)                                                        *)
(***************************************************************************)
AnchorPriors ==
  { i \in Live : isam2_.factors[i + 1] = PriorFactor(AnchorWorker) }

C12_AtMostOneAnchorPrior ==
  (\A t \in Threads : pc[t] = "idle") => Cardinality(AnchorPriors) <= 1

(***************************************************************************)
(* C13: a processLoopClosure whose candidate names a track id >= N aborts  *)
(* at its CHECKs: the call never gets to the ICP step, to the factor or to *)
(* the backend's update.  (No CHECK looks at the track ids: the CHECKs     *)
(* read laser_tracks_[id] past the vector, and can pass.)                  *)
(***************************************************************************)
C13_OutOfRangeTrackIdAborts ==
  \A t \in Threads :
    (InLoopClosure(t) /\ ~TrackIdsInRange(frame[t].loop_closure)) =>
      pc[t] \in {"plc_lock", "plc_check", "aborted"}

(***************************************************************************)
(* C14: getLaserTrack(id) checks and returns under the lock; for           *)
(* 0 <= id < N it returns the handle of the track created at construction  *)
(* with index id, which is still the track at that index whatever          *)
(* operations ran before; for id >= N it aborts at its CHECKs, and the     *)
(* step of the CHECKs never changes the backend, the tracks, the slot or   *)
(* the lock.                                                               *)
(***************************************************************************)
InGetLaserTrack(t) == frame[t].op = "getLaserTrack"

C14_GetLaserTrackChecked ==
  /\ [](\A t \in Threads :
          InGetLaserTrack(t) =>
            /\ pc[t] \in {"gl_check", "gl_return"} => full_class_mutex_.owner = t
            /\ pc[t] = "gl_return" =>
                 /\ frame[t].laser_track_id \in TrackIds
                 /\ frame[t].returned = frame[t].laser_track_id
                 /\ laser_tracks_[frame[t].laser_track_id].laser_track_id
                      = frame[t].returned
            /\ frame[t].laser_track_id >= n_laser_slam_workers_ =>
                 pc[t] \in {"gl_lock", "gl_check", "aborted"})
  /\ [][\A t \in Threads :
          (pc[t] = "gl_check" /\ Steps(t)) =>
            /\ UNCHANGED <<isam2_, laser_tracks_, factor_indice_to_remove_,
                           full_class_mutex_>>
            /\ frame[t].laser_track_id >= n_laser_slam_workers_ => aborted']_vars

\* getLaserTrack(1) is about to return, after a loop closure moved the
\* poses of the tracks.
C14_Witness ==
  \E t \in Threads :
    /\ pc[t] = "gl_return"
    /\ frame[t].laser_track_id = 1
    /\ laser_tracks_[1].values # {}

(***************************************************************************)
(* C15: the backend is constructed with the relinearization policy of the  *)
(* estimation parameters: its skip count and its threshold are the         *)
(* parameters' (so that parameters that differ in them give backends that  *)
(* differ).  (The constructor sets 1 and 0.001 whatever the parameters.)   *)
(***************************************************************************)
C15_RelinearizationFromParams ==
  /\ isam2_.relinearizeSkip = params_.relinearization.skip
  /\ isam2_.relinearizeThreshold = params_.relinearization.threshold

(***************************************************************************)
(* C16: when the file of the ICP configuration cannot be opened the        *)
(* estimator is constructed all the same: one warning is logged, icp_ has  *)
(* its default configuration, and the backend, the N tracks and the noise  *)
(* model are those the constructor makes from the same parameters when the *)
(* file can be read.                                                       *)
(***************************************************************************)
WithReadableFile(p) == [p EXCEPT !.icp_configuration_file = "readable"]

C16_MissingIcpFileFallsBack ==
  params_.icp_configuration_file = "missing" =>
    /\ Len(glog) = 1
    /\ icp_ = "default"
    /\ icp_ # Constructed(WithReadableFile(params_)).icp_
    /\ start.isam2_ = Constructed(WithReadableFile(params_)).isam2_
    /\ isam2_ = start.isam2_
    /\ DOMAIN laser_tracks_ = 0..(n_laser_slam_workers_ - 1)
    /\ laser_tracks_ = Constructed(WithReadableFile(params_)).laser_tracks_
    /\ loop_closure_noise_model_ =
         Constructed(WithReadableFile(params_)).loop_closure_noise_model_
    /\ loop_closure_noise_model_.kind =
         IF params_.add_m_estimator_on_loop_closures
         THEN "robust_cauchy" ELSE "diagonal"

\* The estimator built without the file, with the robust noise model, hands
\* out its second track.
C16_Witness ==
  /\ params_.icp_configuration_file = "missing"
  /\ params_.add_m_estimator_on_loop_closures
  /\ ~aborted
  /\ \E t \in Threads : pc[t] = "gl_return" /\ frame[t].returned = 1

(***************************************************************************)
(* C17: the reentrant lock is balanced and never deadlocks: a thread holds *)
(* the lock exactly as many times as it has lock_guards in scope (twice in *)
(* the estimateAndRemove that processLoopClosure calls, never outside a    *)
(* call); the nested lock_guard finds the lock takable; no call on valid   *)
(* input aborts; and under fair scheduling every thread that waits for the *)
(* lock gets it and every call on valid input returns.                     *)
(***************************************************************************)
\* The lock_guards of thread t that are in scope.
HoldCount(t) ==
  IF frame[t].nested /\ pc[t] \in {"er_update", "er_update2", "er_update3",
                                   "er_calc", "er_return"}
  THEN 2
  ELSE IF \/ pc[t] \in LockedBodyPositions \ {"er_lock"}
          \/ pc[t] = "er_lock" /\ frame[t].nested
       THEN 1
       ELSE 0

WaitsForLock(t) ==
  \/ pc[t] \in {"plc_lock", "e_lock", "gl_lock"}
  \/ pc[t] = "er_lock" /\ ~frame[t].nested

C17_ReentrantLockBalanced ==
  /\ [](\A t \in Threads :
          /\ HoldCount(t) > 0 =>
               /\ full_class_mutex_.owner = t
               /\ full_class_mutex_.count = HoldCount(t)
          /\ HoldCount(t) = 0 => full_class_mutex_.owner # t
          /\ (pc[t] = "er_lock" /\ frame[t].nested) => CanLock(t)
          /\ pc[t] # "aborted")
  /\ \A t \in Threads :
       /\ WaitsForLock(t) ~> (full_class_mutex_.owner = t)
       /\ (pc[t] # "idle") ~> (pc[t] = "idle")

\* A thread waits for the lock while the other holds it twice.
C17_Witness ==
  \E t \in Threads, u \in Threads :
    /\ WaitsForLock(t)
    /\ full_class_mutex_ = [owner |-> u, count |-> 2]
    /\ u # t

(***************************************************************************)
(* C18: estimate, estimateAndRemove and registerPrior each call the        *)
(* backend in this order: one update that carries the new factors, then    *)
(* two updates that carry nothing and leave the factors as they are, then  *)
(* calculateEstimate, whose value is the result the call returns with; no  *)
(* statement is reached except from the one before it.                     *)
(***************************************************************************)
\* The statement each statement of the three operations comes after.
PrecedingStatement ==
  [p \in {"e_update2", "e_update3", "e_calc", "e_return",
          "er_update2", "er_update3", "er_calc", "er_return",
          "rp_check", "rp_update2", "rp_update3", "rp_calc", "rp_return"} |->
     CASE p = "e_update2" -> "e_update"
       [] p = "e_update3" -> "e_update2"
       [] p = "e_calc" -> "e_update3"
       [] p = "e_return" -> "e_calc"
       [] p = "er_update2" -> "er_update"
       [] p = "er_update3" -> "er_update2"
       [] p = "er_calc" -> "er_update3"
       [] p = "er_return" -> "er_calc"
       [] p = "rp_check" -> "rp_update"
       [] p = "rp_update2" -> "rp_check"
       [] p = "rp_update3" -> "rp_update2"
       [] p = "rp_calc" -> "rp_update3"
       [] p = "rp_return" -> "rp_calc"]

ExtraUpdatePositions ==
  {"e_update2", "e_update3", "er_update2", "er_update3", "rp_update2",
   "rp_update3"}

CalcPositions == {"e_calc", "er_calc", "rp_calc"}

C18_UpdateCallOrder ==
  [][\A t \in Threads :
       Steps(t) =>
         /\ pc'[t] \in DOMAIN PrecedingStatement =>
              pc[t] = PrecedingStatement[pc'[t]]
         /\ pc[t] \in SubmissionPositions =>
              /\ isam2_'.n_updates = isam2_.n_updates + 1
              /\ Len(isam2_'.factors)
                   = Len(isam2_.factors) + Len(frame[t].new_factors)
              /\ \A k \in 1..Len(frame[t].new_factors) :
                   isam2_'.factors[Len(isam2_.factors) + k]
                     = frame[t].new_factors[k]
              /\ pc'[t] \in DOMAIN PrecedingStatement
         /\ pc[t] \in ExtraUpdatePositions =>
              /\ isam2_'.n_updates = isam2_.n_updates + 1
              /\ isam2_'.factors = isam2_.factors
              /\ pc'[t] \in DOMAIN PrecedingStatement
         /\ pc[t] \in CalcPositions =>
              /\ isam2_' = isam2_
              /\ frame'[t].result = ISAM2CalculateEstimate(isam2_)
              /\ pc'[t] \in DOMAIN PrecedingStatement]_vars

\* estimate is about to return the estimate of its one new factor, after
\* three updates of the backend.
C18_Witness ==
  \E t \in Threads :
    /\ pc[t] = "e_return"
    /\ isam2_.n_updates = 3
    /\ Len(isam2_.factors) = 1
    /\ frame[t].result = {0}

(***************************************************************************)
(* C19: processLoopClosure hands the backend exactly one factor, the       *)
(* relative pose between the pose of track_a at time_a and the pose of     *)
(* track_b at time_b; its measurement is what icp_.compute made of the     *)
(* candidate's transform when the ICP step is enabled, and the candidate's *)
(* transform when it is not; icp_.compute is called once, with the         *)
(* candidate's transform as the initial guess, when the step is enabled    *)
(* and never when it is not; and the candidate the caller passed is not    *)
(* written.                                                                *)
(***************************************************************************)
AfterSubmission ==
  {"er_update2", "er_update3", "er_calc", "er_return", "plc_push", "plc_return"}

AfterFactor == {"er_lock", "er_update"} \cup AfterSubmission

ExpectedLoopClosureFactor(lc, p) ==
  [kind |-> "loop_closure",
   from_track |-> lc.track_id_a, from_time |-> lc.time_a_ns,
   to_track |-> lc.track_id_b, to_time |-> lc.time_b_ns,
   measured |-> IF p.do_icp_step_on_loop_closures
                THEN IcpCompute(lc.T_a_b) ELSE lc.T_a_b,
   worker |-> 0]

C19_OneRelativePoseFactor ==
  /\ [](\A t \in Threads :
          InLoopClosure(t) =>
            /\ pc[t] \in {"plc_factor"} \cup AfterFactor =>
                 frame[t].icp_calls =
                   IF params_.do_icp_step_on_loop_closures
                   THEN <<frame[t].loop_closure.T_a_b>> ELSE <<>>
            /\ pc[t] \in AfterFactor =>
                 frame[t].new_factors =
                   <<ExpectedLoopClosureFactor(frame[t].loop_closure, params_)>>
            /\ pc[t] \in AfterSubmission =>
                 /\ Len(frame[t].update_result) = 1
                 /\ isam2_.factors[frame[t].update_result[1] + 1]
                      = ExpectedLoopClosureFactor(frame[t].loop_closure, params_)
                 /\ frame[t].update_result[1] \in Live)
  /\ [][\A t \in Threads :
          (InLoopClosure(t) /\ InLoopClosure(t)') =>
            frame'[t].loop_closure = frame[t].loop_closure]_vars

\* A loop closure between two tracks is about to return with the ICP step
\* enabled: the backend holds the refined transform.
C19_Witness ==
  \E t \in Threads :
    /\ InLoopClosure(t)
    /\ pc[t] = "plc_return"
    /\ params_.do_icp_step_on_loop_closures
    /\ frame[t].loop_closure.track_id_a # frame[t].loop_closure.track_id_b
    /\ isam2_.factors[frame[t].update_result[1] + 1].measured
         # frame[t].loop_closure.T_a_b

====
